---- MODULE Spec2Model ----
(***************************************************************************)
(* The generate -> persist -> validate -> execute -> record -> regenerate  *)
(* loop of the two orchestrators of this repository:                       *)
(*   DeveloperAgentLogic  (src/DeveloperAgent.py)                          *)
(*   SlicerGeminiLogic    (src/SlicerGemini.py)                            *)
(* A request is one call of processRequest.  Texts are abstract values     *)
(* that carry what the code inspects: whether they are None or empty,      *)
(* their length against the 50-character threshold, and whether they       *)
(* compile.  A file is the text it holds together with the line ending it  *)
(* is stored with, since read_code and write_code open it in text mode.    *)
(* The host (module registry, reload, script interpreter), the generation  *)
(* backend and the file system are inputs chosen with \E.                  *)
(***************************************************************************)
EXTENDS Integers, Sequences, FiniteSets, TLC

\* ------------------------------------------------------------------ bounds
\* Largest attempt budget handed to setDebugIterations.
MaxBudget == 2
\* Largest value the user sets the debug-iterations spin box to.
MaxSpinBoxValue == 1
\* Largest number of activations of processRequest that are followed.
MaxNesting == 2
\* Longest text, in characters, written to the store on its own.
MaxTextLen == 3
\* Most consecutive writes of one text to the store that are counted.
MaxSameWrites == 2

\* ------------------------------------------------------- program constants
\* getDebugIterations' default when setDebugIterations was never called.
DefaultDebugIterations == 2
\* debugIterationsSpinBox.setMinimum.
SpinBoxMinimum == 1
\* SlicerGemini: max_debug_attempts of createNewModule / createSimpleScript.
GeminiMaxDebugAttempts == 2
\* SlicerGemini: maxAttempts of modifyExistingModule.
GeminiModifyMaxAttempts == 3
\* call_ai: cleaned output shorter than this falls back to the code context.
MinCodeLength == 50
\* SlicerGemini's createSimpleScript: new_code[:1000] in the error block.
PreviewLength == 1000

\* ------------------------------------------------------------------- texts
None == "None"          \* Python None (read_code failed, call_ai failed)

\* os.linesep of the platform the host runs on.
LineSeps == {"LF", "CRLF"}

\* A file on disk: its text with every line ending written as "\n", and the
\* line ending the bytes on disk use (a file without text has none).
OnDisk(text, eol) == [text |-> text, eol |-> IF text = "" THEN "none" ELSE eol]
NoFile == [text |-> "Missing", eol |-> "none"]       \* no file at the path
Undecodable == [text |-> "Binary", eol |-> "none"]   \* bytes that are not UTF-8

Variants == {"DeveloperAgent", "SlicerGemini"}
Kinds == {"NewModule", "ModifyModule", "NewScript"}

\* get_module_boilerplate / get_script_template: the code context of attempt 0.
Template(kind) == IF kind = "NewScript" THEN "ScriptTemplate" ELSE "Boilerplate"

\* What the model can return after call_ai's clean-up (fences and leading
\* comments removed, stripped): a text that compiles, one that does not, and
\* one below the length threshold.
CleanedOutputs == {"G1", "Gbad", "Short"}
\* Why client.chat.completions.create can raise.
BackendErrors == {"RateLimited", "AuthFailure", "OtherFailure"}
BackendOutcomes == CleanedOutputs \cup BackendErrors

\* Content an existing module file can have before a ModifyModule request.
OriginalContents ==
    {OnDisk("A", "LF"), OnDisk("A", "CRLF"), OnDisk("", "none"), Undecodable}
\* Content at the path of a new module or script before the request.
PriorContents == {NoFile, OnDisk("Old", "LF")}

\* len(text) as far as the length threshold of call_ai and the preview
\* length of the error block can tell texts apart.
TextLen(t) ==
    CASE t = "" -> 0
      [] t = "Short" -> 10
      [] t = "G1" -> 1500
      [] t = "A" -> 120
      [] t = "Old" -> 120
      [] t = "Boilerplate" -> 560
      [] t = "ScriptTemplate" -> 200
      [] OTHER -> 90

\* compile(text, ..., 'exec') raises no SyntaxError.
Compiles(t) == t \notin {"Gbad", None}

\* The host can instantiate a module from the file: it compiles and defines
\* the module classes (an empty or absent file defines none).
HostCanLoad(f) ==
    /\ f \notin {NoFile, Undecodable}
    /\ Compiles(f.text)
    /\ f.text \notin {"", "Short"}

\* What the host does when the artifact is loaded, reloaded or executed:
\* it runs cleanly, it raises, or it raises nothing but reports an error as
\* text (error-log entry during setup, "Traceback" in the captured reload
\* output, error text printed by a script).
ProbeBehaviours == {"ok", "raises", "logsError"}

\* ------------------------------------------------------------------- state
VARIABLES
    linesep,       \* os.linesep of the platform
    pc,            \* position of the orchestrator inside processRequest
    variant,       \* which orchestrator runs the request
    kind,          \* target kind of the request
    maxAttempts,   \* max_debug_attempts / maxAttempts of the running loop
    attempt,       \* the for-loop variable
    file,          \* content at the artifact path
    fileBefore,    \* content at the artifact path when the request started
    initialCode,   \* modifyExistingModule: initialCode = read_code(modulePath)
    currentCode,   \* current_code / currentCode: code context of the next call
    newCode,       \* newCode / new_code of the running attempt
    errorHistory,  \* error_history / errorHistory: sequence of failure blocks
    pendingError,  \* the exception (or failed reload) the attempt ended with
    sessionLog,    \* one record per attempt: what each stage did
    genCalls,      \* number of call_ai invocations of the request
    restored,      \* the request ran the restore-and-reload tail
    writeFailed,   \* some write_code of the request met an I/O error
    observers,     \* handlers connected to the host error log by the probe
    result,        \* value returned by processRequest
    inProgress,    \* activations of processRequest that have not returned
    sendButtonEnabled,        \* sendButton.enabled
    newModuleNameLineEdit,    \* its text and its enabled flag
    targetModuleSelector,     \* its current index (0 is the empty entry) and enabled flag
    scriptNameLineEdit,       \* its text and its enabled flag
    storeFile,     \* a file of the store, character by character
    storeText,     \* the text last handed to write_code for that file
    storeWrites,   \* how many times in a row that text was written
    storeRead,     \* what read_code returned since the last write
    probe,         \* one call of a probe function, step by step
    scene,         \* nodes in the host's MRML scene
    response,      \* response.choices[0].message.content of the last completion
    cleaned,       \* where call_ai is with it, and the final_code it made of it
    conversationView,  \* action_type of the "New Request" entry that has no result yet
    scriptFiles,          \* content at each script path
    lastScriptNodeID,     \* logic.lastScriptNodeID
    lastScriptFilePath,   \* logic.lastScriptFilePath
    script,        \* where createSimpleScript is in its loop
    opened,        \* what the last "Open in Script Editor" click ended with
    retry          \* attempts and outcome of one trySetNode chain

widgetVars == <<sendButtonEnabled, newModuleNameLineEdit, targetModuleSelector,
                scriptNameLineEdit>>

logicVars == <<linesep, pc, variant, kind, maxAttempts, attempt, file, fileBefore, initialCode,
          currentCode, newCode, errorHistory, pendingError, sessionLog, genCalls,
          restored, writeFailed, observers, result>>

storeVars == <<storeFile, storeText, storeWrites, storeRead>>

probeVars == <<probe, scene>>

adapterVars == <<response, cleaned>>

viewVars == <<conversationView>>

editorVars == <<scriptFiles, lastScriptNodeID, lastScriptFilePath, script, opened, retry>>

vars == <<logicVars, inProgress, widgetVars, storeVars, probeVars, adapterVars, viewVars, editorVars>>

\* The value processRequest hands back: status "success" (with what the
\* message names) or "failure" (with the error-history blocks its error text
\* holds); "raised" when an exception left processRequest, "noValue" when a
\* function ended without a return statement.
NoResult == [status |-> "none", reason |-> "", history |-> <<>>, names |-> ""]

\* No probe function is running and none has returned.
NoProbe ==
    [fn |-> "none", variant |-> "DeveloperAgent", pc |-> "idle", raised |-> FALSE,
     loggedEarly |-> FALSE, widget |-> "none", emitted |-> <<>>, buffer |-> <<>>, sceneAtExec |-> {},
     streams |-> "original", value |-> "none", detail |-> <<>>]

\* Paths createSimpleScript writes scripts to (one per script name).
ScriptPaths == {"Scripts/A.py", "Scripts/B.py"}

\* createSimpleScript is not running.
NoScript == [pc |-> "idle", path |-> None, attempt |-> 0, max |-> 0]

\* No trySetNode chain has been scheduled.
NoRetry == [state |-> "none", count |-> 0, warnings |-> 0]

Init ==
    /\ linesep \in LineSeps
    /\ pc = "idle"
    /\ variant = "DeveloperAgent"
    /\ kind = "NewModule"
    /\ maxAttempts = DefaultDebugIterations
    /\ attempt = 0
    /\ file = NoFile
    /\ fileBefore = NoFile
    /\ initialCode = None
    /\ currentCode = None
    /\ newCode = None
    /\ errorHistory = <<>>
    /\ pendingError = ""
    /\ sessionLog = <<>>
    /\ genCalls = 0
    /\ restored = FALSE
    /\ writeFailed = FALSE
    /\ observers = 0
    /\ result = NoResult
    /\ inProgress = 0
    /\ sendButtonEnabled = TRUE
    /\ newModuleNameLineEdit = [text |-> "", enabled |-> TRUE]
    /\ targetModuleSelector = [index |-> 0, enabled |-> TRUE]
    /\ scriptNameLineEdit = [text |-> "", enabled |-> TRUE]
    /\ storeFile = [exists |-> FALSE, bytes |-> <<>>]
    /\ storeText = <<>>
    /\ storeWrites = 0
    /\ storeRead = [done |-> FALSE, isNone |-> FALSE, text |-> <<>>]
    /\ probe = NoProbe
    /\ scene = {}
    /\ response = <<>>
    /\ cleaned = [pc |-> "idle", text |-> <<>>]
    /\ conversationView = ""
    /\ scriptFiles = [p \in ScriptPaths |-> NoFile]
    /\ lastScriptNodeID = None
    /\ lastScriptFilePath = None
    /\ script = NoScript
    /\ opened = "none"
    /\ retry = NoRetry

\* ------------------------------------------------------------ artifact store
\* read_code: open(path, 'r', encoding='utf-8').read().  Universal newlines:
\* every line ending of the file comes back as "\n".  None when open or
\* decode fails.
read_code(f) == IF f \in {NoFile, Undecodable} THEN None ELSE f.text

\* A write that leaves a file that already exists as it is.
write_code_NoOverwrite(f, text, ioOk, sep) ==
    IF ~ioOk \/ f # NoFile THEN f
    ELSE IF text = None THEN OnDisk("", "none")
    ELSE OnDisk(text, sep)

\* write_code: open(path, 'w', encoding='utf-8').write(text): full overwrite,
\* every "\n" of the text is stored as os.linesep; every exception is
\* swallowed.  ioOk = FALSE is open() failing (the file is left as it was).
\* Writing None opens and truncates the file, then f.write raises TypeError,
\* which is swallowed too.
write_code(f, text, ioOk, sep) ==
    IF ~ioOk THEN f
    ELSE IF text = None THEN OnDisk("", "none")
    ELSE OnDisk(text, sep)

\* ------------------------------------------------------- generation adapter
\* validateSlicerCode: the issue about syntax (the one about the import is
\* not modelled: it depends on the text only and changes no control flow).
validateSlicerCode(code) == IF Compiles(code) THEN {} ELSE {"Syntax error"}

\* call_ai, lines "Fallback to template if no valid code generated".
FallbackToContext(final_code, code_context) ==
    IF final_code = "" \/ TextLen(final_code) < MinCodeLength
    THEN code_context ELSE final_code

\* The value call_ai returns for a backend outcome.
\*   DeveloperAgent: None on every backend exception.
\*   SlicerGemini:   the code context on every backend exception.
call_ai(v, outcome, code_context) ==
    IF outcome \in BackendErrors
    THEN (IF v = "DeveloperAgent" THEN None ELSE code_context)
    ELSE FallbackToContext(outcome, code_context)

\* The orchestrator's test of call_ai's return value.
\*   DeveloperAgent: newCode is None
\*   SlicerGemini:   not newCode or newCode.startswith("# Gemini API call failed")
GenerationFailed(v, code) ==
    IF v = "DeveloperAgent" THEN code = None ELSE code \in {None, ""}

\* "current_code or boilerplate" / "current_code or script_template" for the
\* new-artifact kinds, currentCode for modifyExistingModule.
CodeContext(k, current) ==
    IF k = "ModifyModule" THEN current
    ELSE IF current \in {None, ""} THEN Template(k) ELSE current

\* ---------------------------------------------------------------- the loop
\* Number of iterations of the for loop:
\*   createNewModule / createSimpleScript: range(max_debug_attempts + 1)
\*   modifyExistingModule:                 range(maxAttempts)
LoopBoundOneMore(k, n) == IF k = "ModifyModule" THEN n + 2 ELSE n + 1

LoopBound(k, n) == IF k = "ModifyModule" THEN n ELSE n + 1

\* The budget the loop runs with: getDebugIterations() in DeveloperAgent, the
\* literals of SlicerGemini.
Budget(v, k, n) ==
    IF v = "DeveloperAgent" THEN n
    ELSE IF k = "ModifyModule" THEN GeminiModifyMaxAttempts
    ELSE GeminiMaxDebugAttempts

\* The generated text inside the block an except clause formats: its text
\* and how many of its characters the block holds.
\*   createNewModule, modifyExistingModule: the block holds no code
\*   createSimpleScript, DeveloperAgent:    {new_code}
\*   createSimpleScript, SlicerGemini:      {new_code[:1000]}
NoExcerpt == [text |-> None, len |-> 0]

CodeExcerpt(v, k, code) ==
    IF k # "NewScript" THEN NoExcerpt
    ELSE [text |-> code,
          len |-> IF v = "SlicerGemini" /\ TextLen(code) > PreviewLength
                  THEN PreviewLength ELSE TextLen(code)]

Block(i, err, code) == [attempt |-> i, error |-> err, code |-> code]

Failure(reason, hist) ==
    [status |-> "failure", reason |-> reason, history |-> hist, names |-> ""]

\* The success messages: createNewModule and createSimpleScript append the
\* directory or the file path, modifyExistingModule names the module.
Success(k) ==
    [status |-> "success", reason |-> "", history |-> <<>>,
     names |-> (IF k = "ModifyModule" THEN "module" ELSE "path")]

\* processRequest's dispatch on its three target arguments ("" is an argument
\* that is empty or None): newModuleName first, then targetModuleName, then
\* scriptName.
TargetKind(newModuleName, targetModuleName, scriptName) ==
    IF newModuleName # "" THEN "NewModule"
    ELSE IF targetModuleName # "" THEN "ModifyModule"
    ELSE IF scriptName # "" THEN "NewScript"
    ELSE "NoTarget"

\* Where processRequest goes after the client was built.
DispatchWithoutClient(clientOk, k) == IF k = "NoTarget" THEN "done" ELSE "loop"

Dispatch(clientOk, k) == IF ~clientOk \/ k = "NoTarget" THEN "done" ELSE "loop"

\* What is at the artifact path of a request when it starts.
ContentsAt(k) ==
    CASE k = "ModifyModule" -> OriginalContents
      [] k = "NoTarget" -> {NoFile}
      [] OTHER -> PriorContents

\* processRequest: build the client, then dispatch on the target.  The three
\* callees initialise their locals before the loop.
processRequest(v, newModuleName, targetModuleName, scriptName, n, clientOk, content) ==
    LET k == TargetKind(newModuleName, targetModuleName, scriptName)
        snapshot == IF clientOk /\ k = "ModifyModule" THEN read_code(content) ELSE None
    IN
    /\ variant' = v
    /\ kind' = k
    /\ maxAttempts' = Budget(v, k, n)
    /\ attempt' = 0
    /\ file' = content
    /\ fileBefore' = content
    /\ initialCode' = snapshot
    /\ currentCode' = snapshot
    /\ newCode' = None
    /\ errorHistory' = <<>>
    /\ pendingError' = ""
    /\ sessionLog' = <<>>
    /\ genCalls' = 0
    /\ restored' = FALSE
    /\ writeFailed' = FALSE
    /\ pc' = Dispatch(clientOk, k)
    /\ result' = IF ~clientOk THEN Failure("client", <<>>)
                  ELSE IF k = "NoTarget" THEN Failure("No target", <<>>)
                  ELSE NoResult

\* A call of processRequest by a caller of the logic class.
Submit ==
    /\ pc = "idle"
    /\ \E v \in Variants, n \in 0..MaxBudget, clientOk \in BOOLEAN,
          newModuleName \in {"", "NewMod"}, targetModuleName \in {"", "Target"},
          scriptName \in {"", "Script"} :
        \E content \in ContentsAt(TargetKind(newModuleName, targetModuleName, scriptName)) :
            processRequest(v, newModuleName, targetModuleName, scriptName, n,
                           clientOk, content)
    /\ inProgress' = inProgress + 1
    /\ UNCHANGED <<linesep, observers, widgetVars, storeVars, editorVars, viewVars, adapterVars, probeVars>>

\* The head of the for loop.  When the range is exhausted modifyExistingModule
\* goes on to its restore tail; the two create functions have no statement
\* after the loop and return no value.
for_loop ==
    /\ pc = "loop"
    /\ IF attempt < LoopBound(kind, maxAttempts)
       THEN /\ pc' = "call_ai"
            /\ result' = result
       ELSE IF kind = "ModifyModule"
       THEN /\ pc' = "restore"
            /\ result' = result
       ELSE /\ pc' = "done"
            /\ result' = [NoResult EXCEPT !.status = "noValue"]
    /\ UNCHANGED <<probeVars, storeVars, editorVars, viewVars, adapterVars, widgetVars, inProgress, linesep, observers, variant, kind, maxAttempts, attempt, file, fileBefore, initialCode,
                   currentCode, newCode, errorHistory, pendingError, sessionLog,
                   genCalls, restored, writeFailed>>

\* DeveloperAgent's call_ai logs len(code_context) before its try block: with
\* code_context = None this raises TypeError out of call_ai.
CallAiRaises(v, code_context) == v = "DeveloperAgent" /\ code_context = None

Raised == [NoResult EXCEPT !.status = "raised"]

\* The Attempt record opened by a generation call.  validateSlicerCode runs
\* (and its issues are logged) on the path that returns final_code only.
NewAttempt(i, hist, context, outcome, code) ==
    [index |-> i, prompt |-> hist, context |-> context, backend |-> outcome,
     generatedText |-> code,
     warnings |-> (IF outcome \in BackendErrors THEN {} ELSE validateSlicerCode(code)),
     written |-> "none", validation |-> "none", ranClean |-> FALSE,
     execution |-> "none"]

\* One generation call and the orchestrator's test of what it returned.
\*   DeveloperAgent, all kinds:     None -> return the "AI API call failed" result
\*   SlicerGemini, create kinds:    falsy -> return the "Gemini API call failed" result
\*   SlicerGemini, modify:          falsy -> append a line to errorHistory, continue
Generate ==
    /\ pc = "call_ai"
    /\ genCalls' = genCalls + 1
    /\ LET code_context == CodeContext(kind, currentCode) IN
       IF CallAiRaises(variant, code_context)
       THEN /\ pc' = "done"
            /\ result' = Raised
            /\ UNCHANGED <<newCode, errorHistory, sessionLog, attempt>>
       ELSE \E outcome \in BackendOutcomes :
            LET code == call_ai(variant, outcome, code_context) IN
            /\ newCode' = code
            /\ sessionLog' = Append(sessionLog,
                   NewAttempt(attempt, errorHistory, code_context, outcome, code))
            /\ IF ~GenerationFailed(variant, code)
               THEN /\ pc' = "write"
                    /\ UNCHANGED <<result, errorHistory, attempt>>
               ELSE IF variant = "SlicerGemini" /\ kind = "ModifyModule"
               THEN /\ pc' = "loop"
                    /\ errorHistory' = Append(errorHistory,
                           Block(attempt, "Gemini API call failed", NoExcerpt))
                    /\ attempt' = attempt + 1
                    /\ UNCHANGED result
               ELSE /\ pc' = "done"
                    /\ result' = Failure("AI API call failed", <<>>)
                    /\ UNCHANGED <<errorHistory, attempt>>
    /\ UNCHANGED <<probeVars, storeVars, editorVars, viewVars, adapterVars, widgetVars, inProgress, linesep, observers, variant, kind, maxAttempts, file, fileBefore, initialCode,
                   currentCode, pendingError, restored, writeFailed>>

\* write_code(path, newCode); the create functions then set current_code.
Persist ==
    /\ pc = "write"
    /\ \E ioOk \in BOOLEAN :
        /\ file' = write_code(file, newCode, ioOk, linesep)
        /\ writeFailed' = (writeFailed \/ ~ioOk)
        /\ sessionLog' = [sessionLog EXCEPT ![Len(sessionLog)].written =
                              IF ioOk THEN "ok" ELSE "failed"]
    /\ currentCode' = IF kind = "ModifyModule" THEN currentCode ELSE newCode
    /\ pc' = IF kind = "NewScript" THEN "validate" ELSE "probe"
    /\ UNCHANGED <<probeVars, storeVars, editorVars, viewVars, adapterVars, widgetVars, inProgress, linesep, observers, variant, kind, maxAttempts, attempt, fileBefore, initialCode,
                   newCode, errorHistory, pendingError, genCalls, restored, result>>

\* createSimpleScript between write_code and executeScriptInSlicer: the file
\* exists, its content read back is not blank, new_code compiles (compile and
\* testScriptExecution make the same test).  Each failure raises RuntimeError.
ScriptCheck(f, code) ==
    IF f = NoFile THEN "Failed to create script file"
    ELSE IF read_code(f) \in {None, ""} THEN "Cannot read back written script file"
    ELSE IF ~Compiles(code) THEN "Syntax error in generated script"
    ELSE ""

Validate ==
    /\ pc = "validate"
    /\ LET err == ScriptCheck(file, newCode) IN
       IF err = ""
       THEN /\ pc' = "probe"
            /\ pendingError' = pendingError
            /\ sessionLog' = [sessionLog EXCEPT ![Len(sessionLog)].validation = "pass"]
       ELSE /\ pc' = "except"
            /\ pendingError' = err
            /\ sessionLog' = [sessionLog EXCEPT ![Len(sessionLog)].validation = "fail"]
    /\ UNCHANGED <<probeVars, storeVars, editorVars, viewVars, adapterVars, widgetVars, inProgress, linesep, observers, variant, kind, maxAttempts, attempt, file, fileBefore, initialCode,
                   currentCode, newCode, errorHistory, genCalls, restored,
                   writeFailed, result>>

\* createNewModule's probe: registerModule, loadModules, selectModule and
\* testModuleFunctionality (widget lookup, 'logic' attribute, setup under the
\* error-log observer).  It passes when nothing raises and nothing is logged.
testModuleFunctionality(f, h) == HostCanLoad(f) /\ h = "ok"

\* reload_and_capture: success iff reloadScriptedModule raised nothing and the
\* captured output holds no "Traceback".
reload_and_capture(f, h) == HostCanLoad(f) /\ h = "ok"

\* executeScriptInSlicer, the value it returns.
\*   DeveloperAgent: exec() of the text; (False, detail) when it raises,
\*                   (True, "") otherwise: printed text is not inspected.
\*   SlicerGemini:   executeString under redirected stdout/stderr; the whole
\*                   analysis of the captured text sits inside the except
\*                   clause, so a run that raises returns (False, detail)
\*                   and a run that does not raise falls off the end of the
\*                   function: no value.
executeScriptInSlicer(v, h) ==
    IF h = "raises" THEN "False"
    ELSE IF v = "DeveloperAgent" THEN "True"
    ELSE "NoValue"

\* "exec_success, exec_error = self.executeScriptInSlicer(...)": unpacking no
\* value raises TypeError, which the loop's except clause records.
ScriptProbeError(v, h) ==
    CASE executeScriptInSlicer(v, h) = "True" -> ""
      [] executeScriptInSlicer(v, h) = "False" -> "Script runtime execution failed"
      [] OTHER -> "TypeError: cannot unpack non-iterable NoneType object"

\* The error an attempt's probe ends with, "" when it passes.
ProbeError(v, k, f, code, h) ==
    CASE k = "NewModule" ->
            IF testModuleFunctionality(f, h) THEN ""
            ELSE "Module loaded but failed runtime tests"
      [] k = "ModifyModule" ->
            IF reload_and_capture(f, h) THEN "" ELSE "reload failed"
      [] OTHER -> ScriptProbeError(v, h)

\* testModuleFunctionality's finally clause: errorLogModel.disconnect(observer)
\* runs however setup ended.
DisconnectUnlessRaised(h) == h # "raises"

DisconnectOnExit(h) == TRUE

\* The probe of an attempt.  For createNewModule it is registerModule,
\* loadModules, selectModule and the first half of testModuleFunctionality
\* (getModuleWidget, the 'logic' attribute): when these get through, the
\* error-log observer is connected and setup is called; otherwise the
\* attempt fails before an observer exists.
Probe ==
    /\ pc = "probe"
    /\ \E h \in ProbeBehaviours :
        IF kind = "NewModule" /\ HostCanLoad(file) /\ h # "raises"
        THEN /\ pc' = "setup"
             /\ observers' = observers + 1
             /\ UNCHANGED <<result, pendingError, sessionLog>>
        ELSE
        LET err == IF kind = "NewModule"
                   THEN "Module loading failed"
                   ELSE ProbeError(variant, kind, file, newCode, h) IN
        /\ observers' = observers
        /\ IF err = ""
           THEN /\ pc' = "done"
                /\ result' = Success(kind)
                /\ pendingError' = pendingError
                /\ sessionLog' = [sessionLog EXCEPT ![Len(sessionLog)].ranClean = (h = "ok"),
                                                    ![Len(sessionLog)].execution = "pass"]
           ELSE /\ pc' = "except"
                /\ result' = result
                /\ pendingError' = err
                /\ sessionLog' = [sessionLog EXCEPT ![Len(sessionLog)].ranClean = (h = "ok"),
                                                    ![Len(sessionLog)].execution = "fail"]
    /\ UNCHANGED <<probeVars, storeVars, editorVars, viewVars, adapterVars, widgetVars, inProgress, linesep, variant, kind, maxAttempts, attempt, file, fileBefore, initialCode,
                   currentCode, newCode, errorHistory, genCalls, restored,
                   writeFailed>>

\* testModuleFunctionality from moduleWidget.setup() on: setup runs with the
\* observer connected, the observer is disconnected, and the outcome (setup
\* raised, errors were logged, or neither) decides the attempt.
Setup ==
    /\ pc = "setup"
    /\ \E h \in ProbeBehaviours :
        LET err == ProbeError(variant, kind, file, newCode, h) IN
        /\ observers' = IF DisconnectOnExit(h) THEN observers - 1 ELSE observers
        /\ IF err = ""
           THEN /\ pc' = "done"
                /\ result' = Success(kind)
                /\ pendingError' = pendingError
                /\ sessionLog' = [sessionLog EXCEPT ![Len(sessionLog)].ranClean = (h = "ok"),
                                                    ![Len(sessionLog)].execution = "pass"]
           ELSE /\ pc' = "except"
                /\ result' = result
                /\ pendingError' = err
                /\ sessionLog' = [sessionLog EXCEPT ![Len(sessionLog)].ranClean = (h = "ok"),
                                                    ![Len(sessionLog)].execution = "fail"]
    /\ UNCHANGED <<probeVars, storeVars, editorVars, viewVars, adapterVars, widgetVars, inProgress, linesep, variant, kind, maxAttempts, attempt, file, fileBefore, initialCode,
                   currentCode, newCode, errorHistory, genCalls, restored,
                   writeFailed>>

\* What the failure of an attempt does to the error history.
\*   create functions: error_history = <block of this attempt>
\*   modify function:  errorHistory += <block of this attempt>
RecordedHistoryDropped(k, hist, block) == hist

RecordedHistory(k, hist, block) ==
    IF k = "ModifyModule" THEN Append(hist, block) ELSE <<block>>

\* The except clause of the create functions, and the two statements after a
\* failed reload in modifyExistingModule.
RecordError ==
    /\ pc = "except"
    /\ LET hist == RecordedHistory(kind, errorHistory,
                                   Block(attempt, pendingError,
                                         CodeExcerpt(variant, kind, newCode))) IN
       /\ errorHistory' = hist
       /\ IF kind # "ModifyModule" /\ attempt = maxAttempts
          THEN /\ pc' = "done"
               /\ result' = Failure("budget", hist)
               /\ attempt' = attempt
          ELSE /\ pc' = "loop"
               /\ result' = result
               /\ attempt' = attempt + 1
    /\ currentCode' = IF kind = "ModifyModule" THEN newCode ELSE currentCode
    /\ pendingError' = ""
    /\ UNCHANGED <<probeVars, storeVars, editorVars, viewVars, adapterVars, widgetVars, inProgress, linesep, observers, variant, kind, maxAttempts, file, fileBefore, initialCode,
                   newCode, sessionLog, genCalls, restored, writeFailed>>

\* Where modifyExistingModule goes after its restore tail.
AfterRestoreLoopAgain == "loop"

AfterRestore == "done"

\* The tail of modifyExistingModule: write_code(modulePath, initialCode),
\* reload_and_capture (its result is not looked at), return the failure.
Restore ==
    /\ pc = "restore"
    /\ \E ioOk \in BOOLEAN :
        /\ file' = write_code(file, initialCode, ioOk, linesep)
        /\ writeFailed' = (writeFailed \/ ~ioOk)
    /\ restored' = TRUE
    /\ result' = Failure("budget", errorHistory)
    /\ pc' = AfterRestore
    /\ UNCHANGED <<probeVars, storeVars, editorVars, viewVars, adapterVars, widgetVars, inProgress, linesep, observers, variant, kind, maxAttempts, attempt, fileBefore, initialCode,
                   currentCode, newCode, errorHistory, pendingError, sessionLog,
                   genCalls>>

\* The locals of a request are gone when processRequest has returned.
ForgetLocals ==
    /\ pc' = "idle"
    /\ variant' = "DeveloperAgent"
    /\ kind' = "NewModule"
    /\ maxAttempts' = DefaultDebugIterations
    /\ attempt' = 0
    /\ file' = NoFile
    /\ fileBefore' = NoFile
    /\ initialCode' = None
    /\ currentCode' = None
    /\ newCode' = None
    /\ errorHistory' = <<>>
    /\ pendingError' = ""
    /\ sessionLog' = <<>>
    /\ genCalls' = 0
    /\ restored' = FALSE
    /\ writeFailed' = FALSE
    /\ result' = NoResult

\* processRequest has returned (or raised) to the caller of the logic class.
Return ==
    /\ pc = "done"
    /\ ForgetLocals
    /\ inProgress' = inProgress - 1
    /\ UNCHANGED <<linesep, observers, widgetVars, storeVars, editorVars, viewVars, adapterVars, probeVars>>

Next ==
    \/ Submit
    \/ Return
    \/ for_loop
    \/ Generate
    \/ Persist
    \/ Validate
    \/ Probe
    \/ Setup
    \/ RecordError
    \/ Restore

Spec == Init /\ [][Next]_vars

\* The statements of a running request.  Python runs them one after another
\* on the host's main thread, and each external call (backend, file system,
\* host registry, executed script) is taken to return or raise: a request
\* that can take a step takes it.
Step ==
    \/ for_loop
    \/ Generate
    \/ Persist
    \/ Validate
    \/ Probe
    \/ Setup
    \/ RecordError
    \/ Restore

FairSpec == Spec /\ WF_vars(Step)

\* ------------------------------------------------------------- the widget
\* The three slots that keep the target inputs apart.  Each sets the enabled
\* flag of the two other inputs and looks at nothing else.
onNewModuleNameChanged(text) ==
    /\ targetModuleSelector' = [targetModuleSelector EXCEPT !.enabled = (text = "")]
    /\ scriptNameLineEdit' = [scriptNameLineEdit EXCEPT !.enabled = (text = "")]

onTargetModuleChanged(index) ==
    /\ newModuleNameLineEdit' = [newModuleNameLineEdit EXCEPT !.enabled = ~(index > 0)]
    /\ scriptNameLineEdit' = [scriptNameLineEdit EXCEPT !.enabled = ~(index > 0)]

onScriptNameChanged(text) ==
    /\ newModuleNameLineEdit' = [newModuleNameLineEdit EXCEPT !.enabled = (text = "")]
    /\ targetModuleSelector' = [targetModuleSelector EXCEPT !.enabled = (text = "")]

\* The user edits an input that is enabled; the host delivers the events
\* whenever its event loop runs, which diagnostic_print, the probe and
\* appendToConversationView make happen inside a request too (processEvents).
EditNewModuleName ==
    /\ newModuleNameLineEdit.enabled
    /\ \E text \in {"", "NewMod"} :
        /\ text # newModuleNameLineEdit.text
        /\ newModuleNameLineEdit' = [newModuleNameLineEdit EXCEPT !.text = text]
        /\ onNewModuleNameChanged(text)
    /\ UNCHANGED <<logicVars, inProgress, sendButtonEnabled, storeVars, editorVars, viewVars, adapterVars, probeVars>>

SelectTargetModule ==
    /\ targetModuleSelector.enabled
    /\ \E index \in 0..1 :
        /\ index # targetModuleSelector.index
        /\ targetModuleSelector' = [targetModuleSelector EXCEPT !.index = index]
        /\ onTargetModuleChanged(index)
    /\ UNCHANGED <<logicVars, inProgress, sendButtonEnabled, storeVars, editorVars, viewVars, adapterVars, probeVars>>

EditScriptName ==
    /\ scriptNameLineEdit.enabled
    /\ \E text \in {"", "Script"} :
        /\ text # scriptNameLineEdit.text
        /\ scriptNameLineEdit' = [scriptNameLineEdit EXCEPT !.text = text]
        /\ onScriptNameChanged(text)
    /\ UNCHANGED <<logicVars, inProgress, sendButtonEnabled, storeVars, editorVars, viewVars, adapterVars, probeVars>>

\* populateModuleSelector: clear() and addItem("") leave the empty entry
\* current; the combo box emits currentIndexChanged for both, so the slot
\* runs with an index that is not above 0.
populateModuleSelector ==
    /\ targetModuleSelector' = [targetModuleSelector EXCEPT !.index = 0]
    /\ onTargetModuleChanged(0)

\* sendButton.enabled while processRequest runs.
SendButtonLeftEnabled == TRUE

SendButtonWhileProcessing == FALSE

\* The operation onSendPromptButtonClicked announces in the conversation
\* view: scriptName first, then newModuleName, then the target module.
ActionType(newModuleName, targetModuleName, scriptName) ==
    IF scriptName # "" THEN "Creating Script"
    ELSE IF newModuleName # "" THEN "Creating Module"
    ELSE "Modifying Module"

\* onSendPromptButtonClicked of DeveloperAgentWidget (SlicerGeminiWidget has
\* the same slots around its own logic) up to the call of processRequest,
\* which runs setDebugIterations with the spin box's value first.  A click
\* reaches the slot only when the button is enabled.  With an input missing
\* (token, prompt, output directory, or all three targets) the slot warns and
\* returns.
onSendPromptButtonClicked ==
    /\ sendButtonEnabled
    /\ inProgress < MaxNesting
    /\ \E inputsOk \in BOOLEAN :
        LET newModuleName == newModuleNameLineEdit.text
            targetModuleName == IF targetModuleSelector.index > 0 THEN "Target" ELSE ""
            scriptName == scriptNameLineEdit.text
        IN
        IF ~inputsOk \/ (newModuleName = "" /\ targetModuleName = "" /\ scriptName = "")
        THEN UNCHANGED vars
        ELSE /\ sendButtonEnabled' = SendButtonWhileProcessing
             /\ conversationView' = ActionType(newModuleName, targetModuleName, scriptName)
             /\ inProgress' = inProgress + 1
             /\ \E n \in SpinBoxMinimum..MaxSpinBoxValue, clientOk \in BOOLEAN :
                 \E content \in ContentsAt(TargetKind(newModuleName, targetModuleName,
                                                      scriptName)) :
                     processRequest("DeveloperAgent", newModuleName, targetModuleName,
                                    scriptName, n, clientOk, content)
             /\ UNCHANGED <<linesep, observers, newModuleNameLineEdit,
                            targetModuleSelector, scriptNameLineEdit, storeVars,
                            adapterVars, probeVars, editorVars>>

\* sendButton.enabled when the slot ends.  "self.sendButton.enabled = True"
\* stands after the try statement, whose except clause catches what
\* processRequest raises and the TypeError of subscripting a missing result.
SendButtonAfterReturnOnly(status) == status \notin {"raised", "noValue"}

SendButtonAfterRequest(status) == TRUE

\* onSendPromptButtonClicked from the return of processRequest on: a success
\* repopulates the selector; a failure, an exception or a missing value only
\* shows a message, which ends the entry of the request in the conversation
\* view; the button is enabled again in every case.
ShowResult ==
    /\ pc = "done"
    /\ ForgetLocals
    /\ inProgress' = inProgress - 1
    /\ sendButtonEnabled' = SendButtonAfterRequest(result.status)
    /\ IF result.status = "success"
       THEN populateModuleSelector
       ELSE UNCHANGED <<newModuleNameLineEdit, targetModuleSelector, scriptNameLineEdit>>
    /\ conversationView' = ""
    /\ UNCHANGED <<linesep, observers, storeVars, editorVars, adapterVars, probeVars>>

WidgetNext ==
    \/ EditNewModuleName
    \/ SelectTargetModule
    \/ EditScriptName
    \/ onSendPromptButtonClicked
    \/ ShowResult
    \/ for_loop
    \/ Generate
    \/ Persist
    \/ Validate
    \/ Probe
    \/ Setup
    \/ RecordError
    \/ Restore

WidgetSpec == Init /\ [][WidgetNext]_vars

\* The slot runs on the host's main thread: the statements of the request it
\* started and its own statements after processRequest run one after
\* another, so a slot that can go on does go on.
WidgetStep == Step \/ ShowResult

WidgetFairSpec == WidgetSpec /\ WF_vars(WidgetStep)

\* ------------------------------------------- the store, character by character
\* read_code and write_code open the file in text mode with the default
\* newline handling.  A text is a sequence of characters, of which only the
\* carriage return and the line feed are told apart from the others.
Chars == {"a", "CR", "LF"}

RECURSIVE TextsUpTo(_)
TextsUpTo(n) ==
    IF n = 0 THEN {<<>>}
    ELSE TextsUpTo(n - 1)
         \cup {Append(t, c) : t \in {u \in TextsUpTo(n - 1) : Len(u) = n - 1}, c \in Chars}

\* open(path, 'w').write(text): every "\n" is stored as os.linesep.
RECURSIVE translate_on_write(_, _)
translate_on_write(text, sep) ==
    IF text = <<>> THEN <<>>
    ELSE (IF Head(text) = "LF" /\ sep = "CRLF" THEN <<"CR", "LF">> ELSE <<Head(text)>>)
         \o translate_on_write(Tail(text), sep)

\* open(path, 'r').read(): "\r\n" and a lone "\r" both come back as "\n".
RECURSIVE universal_newlines(_)
universal_newlines(bytes) ==
    IF bytes = <<>> THEN <<>>
    ELSE IF Head(bytes) = "CR"
    THEN <<"LF">> \o universal_newlines(
             IF Len(bytes) >= 2 /\ bytes[2] = "LF" THEN Tail(Tail(bytes)) ELSE Tail(bytes))
    ELSE <<Head(bytes)>> \o universal_newlines(Tail(bytes))

\* The bytes a write leaves: mode 'w' truncates the file first.
bytes_appended(old, text, sep) == old \o translate_on_write(text, sep)

bytes_written(old, text, sep) == translate_on_write(text, sep)

\* write_code(path, text) for a text of up to MaxTextLen characters; an I/O
\* error is swallowed and leaves the file as it was.
StoreWrite ==
    /\ \E text \in TextsUpTo(MaxTextLen), ioOk \in BOOLEAN :
        /\ storeFile' = IF ioOk
                        THEN [exists |-> TRUE,
                              bytes |-> bytes_written(storeFile.bytes, text, linesep)]
                        ELSE storeFile
        /\ storeWrites' = IF ~ioOk THEN 0
                          ELSE IF storeWrites >= 1 /\ text = storeText
                          THEN (IF storeWrites < MaxSameWrites THEN storeWrites + 1
                                ELSE storeWrites)
                          ELSE 1
        /\ storeText' = text
    /\ storeRead' = [done |-> FALSE, isNone |-> FALSE, text |-> <<>>]
    /\ UNCHANGED <<logicVars, inProgress, widgetVars, probeVars, editorVars, viewVars, adapterVars>>

\* read_code(path): None when the file cannot be opened.
StoreRead ==
    /\ storeRead' = IF storeFile.exists
                    THEN [done |-> TRUE, isNone |-> FALSE,
                          text |-> universal_newlines(storeFile.bytes)]
                    ELSE [done |-> TRUE, isNone |-> TRUE, text |-> <<>>]
    /\ UNCHANGED <<logicVars, inProgress, widgetVars, storeFile, storeText, storeWrites, probeVars, editorVars, viewVars, adapterVars>>

StoreNext == StoreWrite \/ StoreRead

StoreSpec == Init /\ [][StoreNext]_vars

\* ------------------------------------------------- the probes, step by step
\* One call of a probe function with the host events that happen inside it:
\* the module probe of createNewModule (registerModule, loadModules,
\* selectModule, testModuleFunctionality), reload_and_capture, and
\* executeScriptInSlicer.  The host decides what raises, what is logged and
\* what is printed.
ProbeFns == {"module", "reload", "script"}

\* msg_type of a messageLogged signal of the host's error log.
MsgTypes == {"ERROR", "FATAL", "WARNING", "INFO"}
\* Pieces of text a reload or a script run prints to stdout or stderr.
OutputTokens == {"plain", "Traceback", "traceback"}
\* Most messages or pieces of output followed during one probe.
MaxMessages == 2

\* error_handler of testModuleFunctionality, written to error_buffer.
error_handler_ErrorsOnly(buffer, msg_type) ==
    IF msg_type \in {"ERROR", "FATAL"} THEN Append(buffer, msg_type) ELSE buffer

error_handler(buffer, msg_type) ==
    IF msg_type \in {"ERROR", "FATAL", "WARNING"} THEN Append(buffer, msg_type)
    ELSE buffer

\* "Traceback" in output_buffer.getvalue(): a substring test that tells
\* upper and lower case apart.
HoldsTraceback_Never(output) == FALSE

HoldsTraceback(output) == \E i \in 1..Len(output) : output[i] = "Traceback"

\* The text of traceback.format_exc() inside a returned detail.
ExceptionTrace == "format_exc"

\* A probe function is called.  reload_and_capture and SlicerGemini's
\* executeScriptInSlicer put a buffer in the place of sys.stdout and
\* sys.stderr; both leave through a with block or a finally clause that
\* puts the earlier streams back.  A script run starts after the scene was
\* cleared in DeveloperAgent (slicer.mrmlScene.Clear(0)); SlicerGemini's
\* executeScriptInSlicer redirects stdout and stderr and clears nothing.
ProbeCall ==
    /\ probe.pc \in {"idle", "returned"}
    /\ \E fn \in ProbeFns, v \in Variants :
        LET cleared == IF fn = "script" /\ v = "DeveloperAgent" THEN {} ELSE scene IN
        /\ scene' = cleared
        /\ probe' = [NoProbe EXCEPT !.fn = fn, !.variant = v,
                                    !.sceneAtExec = cleared,
                                    !.streams = IF fn = "reload" \/
                                                   (fn = "script" /\ v = "SlicerGemini")
                                                THEN "buffer" ELSE "original",
                                    !.pc = IF fn = "module" THEN "load" ELSE "running"]
    /\ UNCHANGED <<logicVars, inProgress, widgetVars, storeVars, editorVars, viewVars, adapterVars>>

\* The host logs a message.  During setup the observer is connected and
\* error_handler sees it; before that nothing of the probe sees it.
messageLogged ==
    /\ probe.fn = "module"
    /\ \/ probe.pc = "load" /\ ~probe.loggedEarly
       \/ probe.pc = "setup" /\ Len(probe.emitted) < MaxMessages
    /\ \E msg_type \in MsgTypes :
        probe' = IF probe.pc = "setup"
                 THEN [probe EXCEPT !.emitted = Append(@, msg_type),
                                    !.buffer = error_handler(@, msg_type)]
                 ELSE [probe EXCEPT !.loggedEarly = TRUE]
    /\ UNCHANGED <<logicVars, inProgress, widgetVars, storeVars, editorVars, viewVars, adapterVars, scene>>

\* registerModule, loadModules, selectModule, getModuleWidget and the test of
\* the 'logic' attribute: an exception of the first four, no widget, or a
\* widget without 'logic' ends the probe; otherwise the observer is
\* connected and setup starts.
LoadAndLookup ==
    /\ probe.fn = "module"
    /\ probe.pc = "load"
    /\ \E outcome \in {"raises", "noWidget", "noLogic", "widget"} :
        probe' = IF outcome = "widget"
                 THEN [probe EXCEPT !.pc = "setup", !.widget = outcome]
                 ELSE [probe EXCEPT !.pc = "returned", !.widget = outcome,
                                    !.raised = (outcome = "raises"),
                                    !.value = "Failure",
                                    !.detail = <<ExceptionTrace>>]
    /\ UNCHANGED <<logicVars, inProgress, widgetVars, storeVars, editorVars, viewVars, adapterVars, scene>>

\* moduleWidget.setup() and the wait are over: the observer is disconnected;
\* an exception of setup, or a non-empty error_buffer, fails the probe.
SetupReturns ==
    /\ probe.fn = "module"
    /\ probe.pc = "setup"
    /\ \E raises \in BOOLEAN :
        probe' = IF raises \/ probe.buffer # <<>>
                 THEN [probe EXCEPT !.pc = "returned", !.raised = raises,
                                    !.value = "Failure",
                                    !.detail = (IF raises THEN <<>> ELSE probe.buffer)
                                               \o <<ExceptionTrace>>]
                 ELSE [probe EXCEPT !.pc = "returned", !.value = "Pass"]
    /\ UNCHANGED <<logicVars, inProgress, widgetVars, storeVars, editorVars, viewVars, adapterVars, scene>>

\* The reload or the script prints to stdout or stderr.  reload_and_capture
\* and SlicerGemini's executeScriptInSlicer redirect both streams into a
\* buffer; DeveloperAgent's executeScriptInSlicer captures nothing.
HostPrints ==
    /\ probe.fn \in {"reload", "script"}
    /\ probe.pc = "running"
    /\ Len(probe.emitted) < MaxMessages
    /\ \E token \in OutputTokens :
        probe' = [probe EXCEPT
                    !.emitted = Append(@, token),
                    !.buffer = IF probe.streams = "buffer"
                               THEN Append(@, token) ELSE @]
    /\ UNCHANGED <<logicVars, inProgress, widgetVars, storeVars, editorVars, viewVars, adapterVars, scene>>

\* The script that runs adds a node to the scene.
ScriptAddsNode ==
    /\ probe.fn = "script"
    /\ probe.pc = "running"
    /\ scene' = scene \cup {"node"}
    /\ UNCHANGED <<logicVars, inProgress, widgetVars, storeVars, editorVars, viewVars, adapterVars, probe>>

\* reload_and_capture returns {"success": ..., "error": output_buffer}.
ReloadReturns ==
    /\ probe.fn = "reload"
    /\ probe.pc = "running"
    /\ \E raises \in BOOLEAN :
        probe' = [probe EXCEPT
                    !.pc = "returned",
                    !.raised = raises,
                    !.streams = "original",
                    !.value = IF ~raises /\ ~HoldsTraceback(probe.buffer)
                              THEN "Pass" ELSE "Failure",
                    !.detail = probe.buffer \o
                               (IF raises THEN <<ExceptionTrace>> ELSE <<>>)]
    /\ UNCHANGED <<logicVars, inProgress, widgetVars, storeVars, editorVars, viewVars, adapterVars, scene>>

\* The captured or printed text holds "Traceback" in some case.
PrintsError(output) ==
    \E i \in 1..Len(output) : output[i] \in {"Traceback", "traceback"}

\* executeScriptInSlicer returns (or ends without a return statement).
ScriptReturns ==
    /\ probe.fn = "script"
    /\ probe.pc = "running"
    /\ \E raises \in BOOLEAN :
        LET h == IF raises THEN "raises"
                 ELSE IF PrintsError(probe.emitted) THEN "logsError" ELSE "ok"
            returned == executeScriptInSlicer(probe.variant, h)
        IN
        probe' = [probe EXCEPT
                    !.pc = "returned",
                    !.raised = raises,
                    !.streams = "original",
                    !.value = CASE returned = "True" -> "Pass"
                                [] returned = "False" -> "Failure"
                                [] OTHER -> "NoValue",
                    !.detail = IF raises THEN <<ExceptionTrace>> ELSE <<>>]
    /\ UNCHANGED <<logicVars, inProgress, widgetVars, storeVars, editorVars, viewVars, adapterVars, scene>>

ProbeNext ==
    \/ ProbeCall
    \/ messageLogged
    \/ LoadAndLookup
    \/ SetupReturns
    \/ HostPrints
    \/ ScriptAddsNode
    \/ ReloadReturns
    \/ ScriptReturns

ProbeSpec == Init /\ [][ProbeNext]_vars

\* ------------------------------------------- call_ai's clean-up of a response
\* The text of a completion as a sequence of pieces: the fence "```", the
\* word "python", the word "py", a line break, a character of code, and a
\* comment that explains ("#here").
Pieces == {"FENCE", "python", "py", "NL", "x", "#here"}
\* Longest response, in pieces.
MaxResponseLen == 5

RECURSIVE ResponsesUpTo(_)
ResponsesUpTo(n) ==
    IF n = 0 THEN {<<>>}
    ELSE ResponsesUpTo(n - 1)
         \cup {Append(t, c) : t \in {u \in ResponsesUpTo(n - 1) : Len(u) = n - 1},
                              c \in Pieces}

\* str.strip(): white space is removed at both ends.
RECURSIVE lstrip(_)
lstrip(s) == IF s # <<>> /\ Head(s) = "NL" THEN lstrip(Tail(s)) ELSE s

RECURSIVE rstrip(_)
rstrip(s) ==
    IF s # <<>> /\ s[Len(s)] = "NL" THEN rstrip(SubSeq(s, 1, Len(s) - 1)) ELSE s

strip(s) == rstrip(lstrip(s))

\* str.startswith(prefix).
startswith(s, prefix) ==
    Len(s) >= Len(prefix) /\ SubSeq(s, 1, Len(prefix)) = prefix

\* code[:code.rfind("```")]: the text before the last fence; rfind returns -1
\* when there is none, and code[:-1] is the text without its last character.
\* text[:-1]: the last character is cut off (of a word, its last letter).
WithoutLastChar(code) ==
    IF code = <<>> THEN <<>>
    ELSE LET last == code[Len(code)]
             front == SubSeq(code, 1, Len(code) - 1)
         IN CASE last = "python" -> Append(front, "pytho")
              [] last = "py" -> Append(front, "p")
              [] last = "#here" -> Append(front, "#her")
              [] OTHER -> front

UpToLastFence(code) ==
    LET fences == {i \in 1..Len(code) : code[i] = "FENCE"} IN
    IF fences = {} THEN WithoutLastChar(code)
    ELSE SubSeq(code, 1, (CHOOSE i \in fences : \A j \in fences : j <= i) - 1)

\* "Clean up the response": the branch on startswith("```python"), the
\* branch on startswith("```"), and the response taken as it is.
strip_fence(generated_code) ==
    IF startswith(generated_code, <<"FENCE", "python">>)
    THEN strip(UpToLastFence(SubSeq(generated_code, 3, Len(generated_code))))
    ELSE IF startswith(generated_code, <<"FENCE">>)
    THEN strip(UpToLastFence(SubSeq(generated_code, 2, Len(generated_code))))
    ELSE generated_code

\* "Remove leading explanation comments": while the first line starts with
\* '#' and holds one of the words, the line is dropped.
RECURSIVE drop_explanations(_)
drop_explanations(code) ==
    IF code # <<>> /\ Head(code) = "#here"
    THEN LET breaks == {i \in 1..Len(code) : code[i] = "NL"} IN
         IF breaks = {} THEN <<>>
         ELSE drop_explanations(
                  SubSeq(code, (CHOOSE i \in breaks : \A j \in breaks : i <= j) + 1,
                         Len(code)))
    ELSE code

\* final_code as call_ai computes it from message.content.
final_code(content) == strip(drop_explanations(strip_fence(strip(content))))

\* client.chat.completions.create returns a completion.
CreateCompletion ==
    /\ cleaned.pc = "idle"
    /\ \E content \in ResponsesUpTo(MaxResponseLen) :
        response' = content
    /\ cleaned' = [pc |-> "received", text |-> <<>>]
    /\ UNCHANGED <<logicVars, inProgress, widgetVars, storeVars, editorVars, viewVars, probeVars>>

\* call_ai cleans the content of the completion.
CleanUp ==
    /\ cleaned.pc = "received"
    /\ cleaned' = [pc |-> "cleaned", text |-> final_code(response)]
    /\ UNCHANGED <<logicVars, inProgress, widgetVars, storeVars, editorVars, viewVars, probeVars, response>>

\* call_ai returns; its locals are gone.
ReturnCode ==
    /\ cleaned.pc = "cleaned"
    /\ response' = <<>>
    /\ cleaned' = [pc |-> "idle", text |-> <<>>]
    /\ UNCHANGED <<logicVars, inProgress, widgetVars, storeVars, editorVars, viewVars, probeVars>>

AdapterNext == CreateCompletion \/ CleanUp \/ ReturnCode

AdapterSpec == Init /\ [][AdapterNext]_vars

\* ------------------------------------------------------- scripts in the scene
\* DeveloperAgentLogic only: SlicerGeminiLogic keeps no script node.  In the
\* steps of this layer scene holds the text nodes of the MRML scene, each
\* with its ID, the file name of its storage node and its text.

\* Texts call_ai returns for a script, or a user saves into a script file.
ScriptTexts == {"G1", "G2"}

\* IDs the scene gives to text nodes.
NodeIDs == {"vtkMRMLTextNode1", "vtkMRMLTextNode2", "vtkMRMLTextNode3"}

\* AddNewNodeByClass: the new node gets an ID no node of the scene has.
FreeIDs(sc) == NodeIDs \ {n.id : n \in sc}

\* slicer.mrmlScene.GetNodeByID.
GetNodeByID(sc, id) == {n \in sc : n.id = id}

\* A scan that never finds the node of a file.
NodesFor_NoneFound(sc, script_file_path) == {}

\* The scan of loadScriptIntoScene: text nodes whose storage node has the
\* file name script_file_path.
NodesFor(sc, script_file_path) == {n \in sc : n.fileName = script_file_path}

\* loadScriptIntoScene: (None, message) when the file does not exist or
\* open/read raises; a node of the file that is already in the scene gets
\* the text read from disk and is returned; otherwise a new text node with
\* that text is added, and its storage node (made by the Script Editor
\* helper, or by the fallback when the helper is missing or raises) gets the
\* file name script_file_path.  Returns the node's ID and the scene after.
loadScriptIntoScene(sc, files, script_file_path, newID) ==
    LET content == read_code(files[script_file_path])
        existing == NodesFor(sc, script_file_path)
    IN
    IF files[script_file_path] = NoFile \/ content = None
    THEN [node |-> None, scene |-> sc, message |-> "none"]
    ELSE IF existing # {}
    THEN LET n == CHOOSE n \in existing : TRUE IN
         [node |-> n.id,
          scene |-> (sc \ {n}) \cup {[n EXCEPT !.text = content]},
          message |-> "Updated existing script node"]
    ELSE [node |-> newID,
          scene |-> sc \cup {[id |-> newID, fileName |-> script_file_path,
                              text |-> content]},
          message |-> "Created new script node"]

\* lastScriptNodeID and lastScriptFilePath after a call that returned r.
Remember(r, script_file_path) ==
    IF r.node # None
    THEN /\ lastScriptNodeID' = r.node
         /\ lastScriptFilePath' = script_file_path
    ELSE UNCHANGED <<lastScriptNodeID, lastScriptFilePath>>

\* The user saves, deletes or damages a script file outside the program.
ScriptFileChanges ==
    /\ \E p \in ScriptPaths,
          c \in {NoFile, Undecodable, OnDisk("G1", "LF"), OnDisk("G2", "CRLF")} :
        /\ scriptFiles[p] # c
        /\ scriptFiles' = [scriptFiles EXCEPT ![p] = c]
    /\ UNCHANGED <<logicVars, inProgress, widgetVars, storeVars, probeVars, adapterVars,
                   viewVars, lastScriptNodeID, lastScriptFilePath, script, opened, retry>>

\* A call of logic.loadScriptIntoScene(path).
LoadScript ==
    /\ \E p \in ScriptPaths, id \in FreeIDs(scene) :
        LET r == loadScriptIntoScene(scene, scriptFiles, p, id) IN
        /\ scene' = r.scene
        /\ Remember(r, p)
    /\ UNCHANGED <<logicVars, inProgress, widgetVars, storeVars, probe, adapterVars,
                   viewVars, scriptFiles, script, opened, retry>>

\* createSimpleScript starts: script_file_path from the script name,
\* max_debug_attempts from getDebugIterations().
createSimpleScript ==
    /\ script.pc = "idle"
    /\ \E p \in ScriptPaths, n \in 0..MaxBudget :
        script' = [pc |-> "generate", path |-> p, attempt |-> 0, max |-> n]
    /\ UNCHANGED <<logicVars, inProgress, widgetVars, storeVars, probeVars, adapterVars,
                   viewVars, scriptFiles, lastScriptNodeID, lastScriptFilePath,
                   opened, retry>>

\* The except clause of the loop body: after the last attempt the file, when
\* it exists, is loaded into the scene and the failure is returned;
\* otherwise the next attempt starts.
AttemptFailed(files, sc, newID) ==
    IF script.attempt = script.max
    THEN LET r == IF files[script.path] # NoFile
                  THEN loadScriptIntoScene(sc, files, script.path, newID)
                  ELSE [node |-> None, scene |-> sc, message |-> "none"]
         IN /\ scene' = r.scene
            /\ Remember(r, script.path)
            /\ script' = NoScript
    ELSE /\ scene' = sc
         /\ script' = [script EXCEPT !.attempt = @ + 1, !.pc = "generate"]
         /\ UNCHANGED <<lastScriptNodeID, lastScriptFilePath>>

\* One attempt up to the execution: call_ai (None ends the request at
\* once), write_code, the checks that the file exists and reads back, then
\* compile and testScriptExecution.
GenerateScript ==
    /\ script.pc = "generate"
    /\ \E new_code \in ScriptTexts \cup {None}, ioOk \in BOOLEAN, passes \in BOOLEAN,
          id \in FreeIDs(scene) :
        IF new_code = None
        THEN /\ script' = NoScript
             /\ UNCHANGED <<scriptFiles, scene, lastScriptNodeID, lastScriptFilePath>>
        ELSE LET written == write_code(scriptFiles[script.path], new_code, ioOk, linesep)
                 files == [scriptFiles EXCEPT ![script.path] = written]
             IN
             /\ scriptFiles' = files
             /\ IF written = NoFile \/ read_code(written) = None \/ ~passes
                THEN AttemptFailed(files, scene, id)
                ELSE /\ script' = [script EXCEPT !.pc = "execute"]
                     /\ UNCHANGED <<scene, lastScriptNodeID, lastScriptFilePath>>
    /\ UNCHANGED <<logicVars, inProgress, widgetVars, storeVars, probe, adapterVars,
                   viewVars, opened, retry>>

\* executeScriptInSlicer: slicer.mrmlScene.Clear(0), then exec of the code.
ExecuteScript ==
    /\ script.pc = "execute"
    /\ \E raises \in BOOLEAN, id \in NodeIDs :
        IF raises
        THEN AttemptFailed(scriptFiles, {}, id)
        ELSE /\ scene' = {}
             /\ script' = [script EXCEPT !.pc = "load"]
             /\ UNCHANGED <<lastScriptNodeID, lastScriptFilePath>>
    /\ UNCHANGED <<logicVars, inProgress, widgetVars, storeVars, probe, adapterVars,
                   viewVars, scriptFiles, opened, retry>>

\* The script ran: it is loaded into the scene and success is returned.
LoadGeneratedScript ==
    /\ script.pc = "load"
    /\ \E id \in FreeIDs(scene) :
        LET r == loadScriptIntoScene(scene, scriptFiles, script.path, id) IN
        /\ scene' = r.scene
        /\ Remember(r, script.path)
    /\ script' = NoScript
    /\ UNCHANGED <<logicVars, inProgress, widgetVars, storeVars, probe, adapterVars,
                   viewVars, scriptFiles, opened, retry>>

\* max_attempts of focusScriptInScriptEditor.
max_attempts == 30

\* focusScriptInScriptEditor(nodeOrId): the warning and False when the node
\* cannot be resolved; False when selectModule('ScriptEditor') raises;
\* otherwise the first trySetNode is scheduled with attempts = {"count": 0}
\* and True is returned.  Every call has its own attempts and its own chain
\* of timer callbacks; the chain followed here is the one of a call made
\* while no followed chain is scheduled.
focusScriptInScriptEditor(found, editorOk) ==
    IF ~found
    THEN /\ opened' = "couldNotFind"
         /\ UNCHANGED retry
    ELSE IF ~editorOk
    THEN /\ opened' = "notOpened"
         /\ UNCHANGED retry
    ELSE /\ opened' = "timerStarted"
         /\ retry' = IF retry.state = "scheduled" THEN retry
                     ELSE [state |-> "scheduled", count |-> 0, warnings |-> 0]

\* The slot of the "Open in Script Editor" button: the node of
\* lastScriptNodeID when that is set; else the file of lastScriptFilePath,
\* loaded into the scene; else any Python text node of the scene; else the
\* warning that there is no script.
onOpenInScriptEditorClicked ==
    /\ \E editorOk \in BOOLEAN, id \in FreeIDs(scene) :
        IF lastScriptNodeID # None
        THEN /\ focusScriptInScriptEditor(GetNodeByID(scene, lastScriptNodeID) # {},
                                          editorOk)
             /\ UNCHANGED <<scene, lastScriptNodeID, lastScriptFilePath>>
        ELSE LET r == IF lastScriptFilePath # None /\
                         scriptFiles[lastScriptFilePath] # NoFile
                      THEN loadScriptIntoScene(scene, scriptFiles, lastScriptFilePath, id)
                      ELSE [node |-> None, scene |-> scene, message |-> "none"]
             IN
             IF r.node # None
             THEN /\ scene' = r.scene
                  /\ Remember(r, lastScriptFilePath)
                  /\ focusScriptInScriptEditor(TRUE, editorOk)
             ELSE IF scene # {}
             THEN /\ focusScriptInScriptEditor(TRUE, editorOk)
                  /\ UNCHANGED <<scene, lastScriptNodeID, lastScriptFilePath>>
             ELSE /\ opened' = "noScript"
                  /\ UNCHANGED <<retry, scene, lastScriptNodeID, lastScriptFilePath>>
    /\ UNCHANGED <<logicVars, inProgress, widgetVars, storeVars, probe, adapterVars,
                   viewVars, scriptFiles, script>>

\* A chain that goes on after the last permitted attempt.
RescheduleOnceMore(count) == count <= max_attempts

\* "if attempts['count'] < max_attempts": another run is scheduled.
Reschedule(count) == count < max_attempts

\* The timer callback of the followed chain runs: it sets the node in the
\* Script Editor widget and returns, or an exception (widget not ready, no
\* setter) sends it to the except clause, which schedules the next run or,
\* after the last attempt, shows the warning.
trySetNode ==
    /\ retry.state = "scheduled"
    /\ \E sets \in BOOLEAN :
        LET count == retry.count + 1 IN
        retry' = IF sets THEN [retry EXCEPT !.count = count, !.state = "set"]
                 ELSE IF Reschedule(count) THEN [retry EXCEPT !.count = count]
                 ELSE [retry EXCEPT !.count = count, !.state = "warned",
                                    !.warnings = @ + 1]
    /\ UNCHANGED <<logicVars, inProgress, widgetVars, storeVars, probeVars, adapterVars,
                   viewVars, scriptFiles, lastScriptNodeID, lastScriptFilePath,
                   script, opened>>

\* A call of logic.focusScriptInScriptEditor(nodeOrId) with a node ID, which
\* is looked up in the scene, or with a node object, which is taken as it is.
FocusCall ==
    /\ \E nodeOrId \in NodeIDs \cup {"node object"}, editorOk \in BOOLEAN :
        focusScriptInScriptEditor(nodeOrId = "node object" \/
                                  GetNodeByID(scene, nodeOrId) # {}, editorOk)
    /\ UNCHANGED <<logicVars, inProgress, widgetVars, storeVars, probeVars, adapterVars,
                   viewVars, scriptFiles, lastScriptNodeID, lastScriptFilePath, script>>

\* Script files and the calls that load them into a scene nobody clears.
SceneNext ==
    \/ ScriptFileChanges
    \/ LoadScript

SceneSpec == Init /\ [][SceneNext]_vars

\* NewScript requests and clicks on "Open in Script Editor".  The slot and
\* the timer callbacks run whenever the host processes events, which
\* diagnostic_print does inside a request (slicer.app.processEvents()); the
\* callbacks touch neither the scene nor the logic's fields.
EditorNext ==
    \/ createSimpleScript
    \/ GenerateScript
    \/ ExecuteScript
    \/ LoadGeneratedScript
    \/ onOpenInScriptEditorClicked

EditorSpec == Init /\ [][EditorNext]_vars

\* Calls of focusScriptInScriptEditor and the timer callbacks they schedule.
FocusNext ==
    \/ FocusCall
    \/ trySetNode

FocusSpec == Init /\ [][FocusNext]_vars

\* QTimer.singleShot: the host's event loop runs a scheduled callback.
FocusFairSpec == FocusSpec /\ WF_vars(trySetNode)

\* ------------------------------------------------------------------ claims
Done == pc = "done"
BudgetExhausted == Done /\ result.status = "failure" /\ result.reason = "budget"
\* The attempts that ended in a validation or execution failure.
FailedAttempts ==
    {i \in 1..Len(sessionLog) :
        sessionLog[i].validation = "fail" \/ sessionLog[i].execution = "fail"}
FatalBackendErrors == {"RateLimited", "AuthFailure"}

\* C1: a request with budget maxAttempts = N never makes more than N+1
\* generation calls, whatever the outcomes of its stages are.
C1_AtMostNPlusOneCalls == genCalls <= maxAttempts + 1

\* C1 witness: a request that failed every attempt and used all N+1 calls.
C1_Witness ==
    /\ BudgetExhausted
    /\ maxAttempts >= 1
    /\ genCalls = maxAttempts + 1
    /\ Cardinality(FailedAttempts) = genCalls

\* C2: the first generation call is always made, and a request whose every
\* attempt fails recoverably makes exactly N+1 generation calls before the
\* budget-exhausted failure is returned, for every target kind.
C2_ExactlyNPlusOneCalls ==
    BudgetExhausted => /\ genCalls >= 1
                       /\ genCalls = maxAttempts + 1

\* C3: once a generation call has failed at the backend with a rate-limit or
\* authentication error, the request makes no further generation call and
\* ends in failure, in both orchestrators.
C3_FatalBackendErrorEndsRequest ==
    \A i \in 1..Len(sessionLog) :
        sessionLog[i].backend \in FatalBackendErrors =>
            /\ i = Len(sessionLog)
            /\ genCalls = i
            /\ Done => result.status = "failure"

\* C4: a ModifyModule request whose every attempt failed validation or
\* execution leaves the module file with the content it had before the
\* request (no write_code of the request met an I/O error).
C4_RestoreRoundTrip ==
    (/\ BudgetExhausted /\ kind = "ModifyModule" /\ ~writeFailed
     /\ FailedAttempts # {})
        => file = fileBefore

\* C5: every path of a ModifyModule request that ends in a failure result
\* leaves the module file restored to the text it held before the request,
\* also when a generation call fails after an earlier attempt has
\* overwritten the file.
C5_EveryFailureRestores ==
    (/\ Done /\ kind = "ModifyModule" /\ result.status = "failure"
     /\ initialCode # None /\ ~writeFailed)
        => read_code(file) = read_code(fileBefore)

\* C6: a NewScript request whose attempt 0 text passes the syntax check and
\* runs without error returns success after exactly one generation call and
\* with an empty error history, in both orchestrators.
C6_ScriptFirstAttemptSucceeds ==
    (/\ kind = "NewScript"
     /\ Len(sessionLog) >= 1
     /\ sessionLog[1].validation = "pass"
     /\ sessionLog[1].ranClean)
        => /\ Done
           /\ result.status = "success"
           /\ genCalls = 1
           /\ errorHistory = <<>>

\* The scenario of C7: createNewModule of DeveloperAgent with budget 1 whose
\* attempt 0 produced text that does not compile.
C7_Scenario ==
    /\ variant = "DeveloperAgent"
    /\ kind = "NewModule"
    /\ maxAttempts = 1
    /\ Len(sessionLog) >= 1
    /\ sessionLog[1].generatedText # None
    /\ ~Compiles(sessionLog[1].generatedText)

\* C7: in that scenario the syntax error is recorded, attempt 1's generation
\* call is made with a non-empty error history, and when attempt 1's probe
\* passes the request returns success having made exactly two calls.
C7_SyntaxErrorThenRepair ==
    C7_Scenario =>
        /\ "Syntax error" \in sessionLog[1].warnings
        /\ Len(sessionLog) >= 2 =>
              /\ sessionLog[2].index = 1
              /\ sessionLog[2].prompt # <<>>
              /\ sessionLog[2].execution = "pass" =>
                    (Done /\ result.status = "success" /\ genCalls = 2)

\* C7 witness: the text of attempt 0 was written and failed its probe, the
\* repaired module passed its probe on attempt 1.
C7_Witness ==
    /\ C7_Scenario
    /\ ~writeFailed
    /\ Len(sessionLog) = 2
    /\ sessionLog[1].execution = "fail"
    /\ sessionLog[2].execution = "pass"
    /\ result.status = "success"

\* C8: modifyExistingModule with budget 0 on a module whose file holds A
\* makes one generation call; when the generated text fails execution the
\* request returns a failure carrying that attempt's error and the file
\* holds A again.
C8_ModifyWithBudgetZero ==
    (/\ Done /\ kind = "ModifyModule" /\ variant = "DeveloperAgent"
     /\ maxAttempts = 0 /\ read_code(fileBefore) = "A" /\ ~writeFailed
     /\ result.status = "failure" /\ result.reason = "budget")
        => /\ genCalls = 1
           /\ result.history # <<>>
           /\ read_code(file) = "A"

\* The attempts whose failure block is part of a history.
Recorded(hist) == {hist[j].attempt : j \in 1..Len(hist)}

\* C9: the error history handed to the generation call of attempt k holds
\* the failure block of every earlier attempt 0..k-1.
C9_HistoryIsCumulative ==
    \A i \in 1..Len(sessionLog) :
        (0..(sessionLog[i].index - 1)) \subseteq Recorded(sessionLog[i].prompt)

\* C10: a request returns a success message that names the artifact, or a
\* failure whose error text holds the failure of every attempt made.
C10_FailureCarriesWholeHistory ==
    (Done /\ ~writeFailed) =>
            /\ result.status = "success" => result.names # ""
            /\ result.status = "failure" =>
                  \A i \in FailedAttempts :
                      sessionLog[i].index \in Recorded(result.history)

\* C11: an attempt whose write_code met an I/O error is aborted: it passes no
\* validation and its probe is not run.
C11_WriteFailureAbortsAttempt ==
    \A i \in 1..Len(sessionLog) :
        sessionLog[i].written = "failed" =>
            /\ sessionLog[i].validation # "pass"
            /\ sessionLog[i].execution = "none"
            /\ ~(i = Len(sessionLog) /\ pc = "setup")

\* C12: processRequest always ends by returning a success or failure result:
\* no exception leaves it and it never ends without a value.
C12_NoExceptionEscapes ==
    Done => result.status \in {"success", "failure"}

\* C13: the probe of an attempt is run only on text that passed a syntax
\* check: an attempt whose text was written and does not compile has no probe
\* outcome.
C13_ProbeOnlyAfterSyntaxCheck ==
    \A i \in 1..Len(sessionLog) :
        (sessionLog[i].written = "ok" /\ sessionLog[i].execution # "none")
            => Compiles(sessionLog[i].generatedText)

\* C14: no attempt writes an empty text to the artifact path.
C14_NeverWritesEmptyText ==
    \A i \in 1..Len(sessionLog) :
        sessionLog[i].written = "ok" => sessionLog[i].generatedText # ""

\* C17: when a request returns success the file at the artifact path holds
\* the generated text of the attempt that passed.
C17_SuccessLeavesGeneratedText ==
    (Done /\ result.status = "success") =>
        read_code(file) = sessionLog[Len(sessionLog)].generatedText

\* The attempts whose write_code took effect.
Written == {i \in 1..Len(sessionLog) : sessionLog[i].written = "ok"}
LastWritten == CHOOSE i \in Written : \A j \in Written : j <= i

\* C18: a NewModule or NewScript request that ends in failure after an attempt
\* wrote the artifact leaves the file holding the text of the last write.
C18_FailedArtifactLeftOnDisk ==
    (/\ Done /\ result.status = "failure"
     /\ kind \in {"NewModule", "NewScript"}
     /\ Written # {})
        => file = OnDisk(sessionLog[LastWritten].generatedText, linesep)

\* C18 witness: two attempts wrote different texts, both failed, and the file
\* holds the second.
C18_Witness ==
    /\ BudgetExhausted
    /\ kind \in {"NewModule", "NewScript"}
    /\ Written = {1, 2}
    /\ sessionLog[1].generatedText # sessionLog[2].generatedText
    /\ fileBefore # NoFile
    /\ file.text = sessionLog[2].generatedText

\* C19: a request that fails because the client cannot be built, or because
\* it names no target, has returned at once: no generation call, no attempt,
\* no change of the file.
C19_NoClientNoWork ==
    result.reason \in {"client", "No target"} =>
        /\ Done
        /\ result.status = "failure"
        /\ genCalls = 0
        /\ sessionLog = <<>>
        /\ file = fileBefore

\* C19 witness: a request for an existing module file ended at the client.
C19_Witness ==
    /\ Done
    /\ result.reason = "client"
    /\ kind = "ModifyModule"
    /\ file = OnDisk("A", "CRLF")

\* C20: the probe's error-log observer is connected exactly while setup
\* runs; at every other point no observer of the probe is connected.
C20_ObserverOnlyDuringSetup ==
    observers = (IF pc = "setup" THEN 1 ELSE 0)

\* C20 witness: a second attempt's setup has ended in failure, after the
\* first attempt's, and no observer is left.
C20_Witness ==
    /\ pc = "except"
    /\ kind = "NewModule"
    /\ attempt >= 1
    /\ pendingError = "Module loaded but failed runtime tests"
    /\ errorHistory # <<>>
    /\ errorHistory[1].error = "Module loaded but failed runtime tests"
    /\ observers = 0

\* C15: at most one request is in progress, and while one is, the send
\* button is disabled, whatever events the host delivers meanwhile.
C15_OneRequestAtATime ==
    /\ inProgress <= 1
    /\ inProgress = 1 => ~sendButtonEnabled
    /\ pc # "idle" => inProgress = 1

\* C15 witness: while a request for a new module sits in the probe's setup,
\* the user has emptied the name input and picked a target module.
C15_Witness ==
    /\ pc = "setup"
    /\ inProgress = 1
    /\ ~sendButtonEnabled
    /\ newModuleNameLineEdit.text = ""
    /\ targetModuleSelector.index = 1

\* The target inputs that are not empty.
TargetInputsSet ==
    {"newModuleName" : x \in {t \in {newModuleNameLineEdit.text} : t # ""}}
    \cup {"targetModuleName" : x \in {i \in {targetModuleSelector.index} : i > 0}}
    \cup {"scriptName" : x \in {t \in {scriptNameLineEdit.text} : t # ""}}

\* C16: whenever the send button can start a request, at most one of the
\* three target inputs is non-empty.
C16_OneTargetAtSubmit ==
    (sendButtonEnabled /\ inProgress = 0) => Cardinality(TargetInputsSet) <= 1

ReadAfterWrite == storeWrites >= 1 /\ storeRead.done

\* C22 as stated: after one write or two writes of the same text, read_code
\* returns exactly that text.
C22_ReadReturnsTextWritten ==
    ReadAfterWrite => (~storeRead.isNone /\ storeRead.text = storeText)

HasCarriageReturn(text) == \E i \in 1..Len(text) : text[i] = "CR"

\* C22, the part that holds: a second write of the same text leaves the file as the first
\* did (full overwrite, nothing is duplicated), and read_code returns exactly
\* the text written when the text holds no carriage return.
C22_ReadReturnsTextWithoutCR ==
    /\ storeWrites >= 1 => storeFile.bytes = translate_on_write(storeText, linesep)
    /\ (ReadAfterWrite /\ ~HasCarriageReturn(storeText))
          => (~storeRead.isNone /\ storeRead.text = storeText)

\* C22 witness: a text with a line feed was written twice where os.linesep
\* is "\r\n", so the bytes differ from the text, and read back unchanged.
C22_Witness ==
    /\ linesep = "CRLF"
    /\ storeWrites = 2
    /\ storeText = <<"a", "LF", "a">>
    /\ storeFile.bytes = <<"a", "CR", "LF", "a">>
    /\ storeRead.done
    /\ storeRead.text = storeText

\* C23: a NewModule or NewScript request that ends in failure leaves a file
\* that was at the artifact path before the request with the content it had.
C23_FailureKeepsPriorArtifact ==
    (/\ Done /\ result.status = "failure"
     /\ kind \in {"NewModule", "NewScript"}
     /\ fileBefore # NoFile)
        => file = fileBefore

\* Attempt i's generation produced no usable model output: the backend raised,
\* or the cleaned output was empty or under the length threshold, so call_ai
\* had only the code context to fall back to.
FellBack(i) ==
    \/ sessionLog[i].backend \in BackendErrors
    \/ TextLen(sessionLog[i].backend) < MinCodeLength

\* C24: in every code path an attempt whose generation fell back is a failed
\* attempt: the request does not end in success with it, and it is recorded
\* in the error history (the one the next attempt is prompted with, or the
\* one the failure result carries when it was the last attempt).
C24_OneFallbackPolicy ==
    \A i \in 1..Len(sessionLog) :
        FellBack(i) =>
            /\ (Done /\ i = Len(sessionLog)) =>
                  /\ result.status = "failure"
                  /\ \E j \in 1..Len(result.history) :
                        result.history[j].attempt = sessionLog[i].index
            /\ i < Len(sessionLog) =>
                  \E j \in 1..Len(sessionLog[i + 1].prompt) :
                        sessionLog[i + 1].prompt[j].attempt = sessionLog[i].index

\* A probe function of the given kind has returned.
Returned(fn) == probe.fn = fn /\ probe.pc = "returned"

\* C25: a script run that raises nothing but prints one of the error
\* signatures (in any case) yields Failure, and a script run that raises
\* nothing and prints no signature yields Pass.
C25_ScriptProbeReadsOutput ==
    (Returned("script") /\ ~probe.raised) =>
        probe.value = (IF PrintsError(probe.emitted) THEN "Failure" ELSE "Pass")

\* Some message of one of the given types was logged while setup ran.
LoggedDuringSetup(types) ==
    \E i \in 1..Len(probe.emitted) : probe.emitted[i] \in types

\* C26 as stated: the module probe yields Failure when a step raises, the
\* widget is missing or has no 'logic', or an error is logged during the
\* setup window, and Pass exactly when none of these occurs.
C26_ModuleProbeFailsOnErrors ==
    Returned("module") =>
        (probe.value = "Failure" <=>
            \/ probe.raised
            \/ probe.widget \in {"noWidget", "noLogic"}
            \/ LoggedDuringSetup({"ERROR", "FATAL"}))

\* C26 amended: the same with the messages that fail the probe being those
\* of type ERROR, FATAL or WARNING; the probe yields Pass or Failure, and
\* what was logged before setup started does not count.
C26_ModuleProbeFailsOnErrorsAndWarnings ==
    Returned("module") =>
        /\ probe.value \in {"Pass", "Failure"}
        /\ probe.value = "Failure" <=>
              \/ probe.raised
              \/ probe.widget \in {"noWidget", "noLogic"}
              \/ LoggedDuringSetup({"ERROR", "FATAL", "WARNING"})

\* C26 witness: setup raised nothing, an INFO and then a WARNING message
\* were logged while it ran, and the probe failed.
C26_Witness ==
    /\ Returned("module")
    /\ ~probe.raised
    /\ probe.widget = "widget"
    /\ probe.emitted = <<"INFO", "WARNING">>
    /\ probe.value = "Failure"

\* C27: reload_and_capture reports success iff the reload raised nothing and
\* the captured output holds no "Traceback"; on failure the error text it
\* returns starts with the captured output and holds the exception trace
\* when an exception was raised.
C27_ReloadSuccessIffCleanOutput ==
    Returned("reload") =>
        /\ probe.value = "Pass" <=>
              /\ ~probe.raised
              /\ \A i \in 1..Len(probe.emitted) : probe.emitted[i] # "Traceback"
        /\ probe.value # "Pass" =>
              /\ probe.value = "Failure"
              /\ Len(probe.detail) >= Len(probe.emitted)
              /\ SubSeq(probe.detail, 1, Len(probe.emitted)) = probe.emitted
              /\ probe.raised =>
                    \E i \in 1..Len(probe.detail) : probe.detail[i] = ExceptionTrace

\* C27 witness: the reload raised nothing and printed a traceback; the call
\* reported failure with that output as its error text.
C27_Witness ==
    /\ Returned("reload")
    /\ ~probe.raised
    /\ probe.emitted = <<"plain", "Traceback">>
    /\ probe.value = "Failure"
    /\ probe.detail = probe.emitted

\* C28: whenever a script run of the script probe starts, the scene is empty
\* (nothing an earlier run created is visible to it), in both variants.
C28_SceneClearedBeforeEveryRun ==
    (probe.fn = "script" /\ probe.pc # "idle") => probe.sceneAtExec = {}

\* The code context the first generation call of a request is given.
InitialContext == IF kind = "ModifyModule" THEN initialCode ELSE Template(kind)

\* C29: the code context of attempt 0 is the template (NewModule, NewScript)
\* or the original module text (ModifyModule); the code context of every
\* later attempt is the text the attempt before it generated and persisted.
C29_ContextIsPreviousPersistedText ==
    \A i \in 1..Len(sessionLog) :
        IF i = 1
        THEN sessionLog[i].context = InitialContext
        ELSE /\ sessionLog[i].context = sessionLog[i - 1].generatedText
             /\ sessionLog[i - 1].written = "ok"

\* C29, the part that holds: the code context of attempt 0 is the template or
\* the original text, and the code context of a later attempt is the text
\* the attempt before it generated, whether or not its write took effect.
C29_ContextIsPreviousGeneratedText ==
    \A i \in 1..Len(sessionLog) :
        IF i = 1
        THEN sessionLog[i].context = InitialContext
        ELSE \/ sessionLog[i].context = sessionLog[i - 1].generatedText
             \/ /\ sessionLog[i - 1].written = "none"
                /\ sessionLog[i].context = sessionLog[i - 1].context

\* C30: every block recorded for an attempt that failed validation or
\* execution holds the text that attempt generated, cut to the preview
\* length: its code excerpt is never longer than that, for every kind.
C30_BlockHoldsBoundedExcerpt ==
    \A j \in 1..Len(errorHistory) :
        errorHistory[j].error # "Gemini API call failed" =>
            \E i \in 1..Len(sessionLog) :
                /\ sessionLog[i].index = errorHistory[j].attempt
                /\ errorHistory[j].code.text = sessionLog[i].generatedText
                /\ errorHistory[j].code.len <= PreviewLength
                /\ \/ errorHistory[j].code.len = TextLen(sessionLog[i].generatedText)
                   \/ errorHistory[j].code.len = PreviewLength

\* C30 for SlicerGemini's createSimpleScript, where it holds.
C30_GeminiScriptBlockIsBounded ==
    (variant = "SlicerGemini" /\ kind = "NewScript") => C30_BlockHoldsBoundedExcerpt

NoFence(s) == \A i \in 1..Len(s) : s[i] # "FENCE"

\* The length of the opening fence line of a response: the fence, a language
\* tag or none, and the line break; 0 when the response does not begin so.
OpeningLen(r) ==
    IF Len(r) >= 2 /\ r[1] = "FENCE" /\ r[2] = "NL" THEN 2
    ELSE IF Len(r) >= 3 /\ r[1] = "FENCE" /\ r[2] \in {"python", "py"} /\ r[3] = "NL"
    THEN 3 ELSE 0

\* What follows the opening fence line, without the closing fence if the
\* response ends with one.
FencedBody(r) ==
    LET rest == SubSeq(r, OpeningLen(r) + 1, Len(r)) IN
    IF rest # <<>> /\ rest[Len(rest)] = "FENCE"
    THEN SubSeq(rest, 1, Len(rest) - 1) ELSE rest

\* C31: a response that is an opening fence (bare or with a language tag), a
\* body and a closing fence is cleaned to exactly the trimmed body; of a
\* response whose fence is never closed, and of a response without a fence,
\* no character of the body is removed.  (Stated for the responses without
\* an explaining comment, which call_ai removes on purpose.)
C31_FencesStrippedBodyKept ==
    (cleaned.pc = "cleaned" /\ \A i \in 1..Len(response) : response[i] # "#here") =>
        /\ (OpeningLen(response) > 0 /\ NoFence(FencedBody(response)))
              => cleaned.text = strip(FencedBody(response))
        /\ NoFence(response) => cleaned.text = strip(response)

\* C31, the part that holds: with the tag "python" or no tag, a closing fence
\* and a body that does not begin with an explaining comment, the cleaned
\* text is the trimmed body.
C31_ClosedPythonFenceStripped ==
    (/\ cleaned.pc = "cleaned"
     /\ OpeningLen(response) > 0
     /\ response[2] # "py"
     /\ response[Len(response)] = "FENCE"
     /\ NoFence(FencedBody(response))
     /\ drop_explanations(strip(FencedBody(response))) = strip(FencedBody(response)))
        => cleaned.text = strip(FencedBody(response))

\* C32: executeScriptInSlicer returns a (success, detail) pair on every path
\* in both variants: (True, "") when the script neither raises nor prints an
\* error, (False, detail) when it raises, never no value; and on return
\* stdout and stderr are the streams installed before the call.
C32_ScriptProbeAlwaysReturnsPair ==
    Returned("script") =>
        /\ probe.value \in {"Pass", "Failure"}
        /\ probe.raised => probe.value = "Failure"
        /\ (~probe.raised /\ ~PrintsError(probe.emitted)) => probe.value = "Pass"
        /\ probe.streams = "original"

\* C32, the part that holds: in both variants a script that raises yields
\* (False, detail), and the streams are put back on every path.
C32_RaiseFailsAndStreamsRestored ==
    Returned("script") =>
        /\ probe.raised => probe.value = "Failure"
        /\ probe.streams = "original"

\* C33: when the module's content cannot be read before the request
\* (read_code returns None), a ModifyModule request leaves the file as it
\* was and returns a failure result; no exception leaves processRequest.
C33_UnreadableModuleLeftAlone ==
    (Done /\ kind = "ModifyModule" /\ read_code(fileBefore) = None) =>
        /\ file = fileBefore
        /\ result.status = "failure"

\* The operation the conversation view names for the function that runs.
Announces(k) ==
    CASE k = "NewScript" -> "Creating Script"
      [] k = "NewModule" -> "Creating Module"
      [] OTHER -> "Modifying Module"

\* C34: while createSimpleScript, createNewModule or modifyExistingModule
\* runs for a submit of the widget, the operation the conversation view
\* announced for that submit is the one that runs.
C34_AnnouncedIsPerformed ==
    (pc \notin {"idle", "done"}) => conversationView = Announces(kind)

\* C35: every submit that disables the send button is followed by the button
\* being enabled again, whether processRequest returns success, returns
\* failure, returns nothing or raises: at every point of a run the button is
\* enabled then or later (the same as disabled leads to enabled).
C35_SendButtonReenabled == []<>sendButtonEnabled

\* C35 witness: processRequest has raised while the button is disabled.
C35_Witness ==
    /\ ~sendButtonEnabled
    /\ pc = "done"
    /\ result.status = "raised"
    /\ inProgress = 1

\* Text nodes of a scene whose storage file name is the path p, and node IDs.
TextNodesOf(sc, p) == {n \in sc : n.fileName = p}
NodeIDsOf(sc) == {n.id : n \in sc}

\* C36: with no scene clear between the calls, after every call of
\* loadScriptIntoScene the scene holds at most one text node per script
\* path; a call that changes the scene or the remembered script is a call
\* for a file that exists, it leaves a node of that path with the text read
\* from disk and remembers its ID; when the path already had a node, no node
\* is added and that node is the one remembered; nodes of other paths are
\* untouched (so a call for a non-existent file changes nothing).
C36_LoadAvoidsDuplicates ==
    [][/\ \A p \in ScriptPaths : Cardinality(TextNodesOf(scene', p)) <= 1
       /\ (scene' # scene \/ lastScriptNodeID' # lastScriptNodeID \/
           lastScriptFilePath' # lastScriptFilePath) =>
            LET p == lastScriptFilePath' IN
            /\ p \in ScriptPaths
            /\ scriptFiles[p] # NoFile
            /\ \E n \in TextNodesOf(scene', p) :
                /\ n.id = lastScriptNodeID'
                /\ n.text = read_code(scriptFiles[p])
            /\ TextNodesOf(scene, p) # {} =>
                /\ NodeIDsOf(scene') = NodeIDsOf(scene)
                /\ lastScriptNodeID' \in NodeIDsOf(TextNodesOf(scene, p))
            /\ \A q \in ScriptPaths \ {p} :
                TextNodesOf(scene', q) = TextNodesOf(scene, q)
      ]_vars

\* C36 witness: both paths have a node; the node remembered last is the one
\* of Scripts/A.py and has the text of the file as it is read now, with the
\* file's "\r\n" line ends read as "\n"; the file of Scripts/B.py is gone.
C36_Witness ==
    /\ Cardinality(scene) = 2
    /\ lastScriptFilePath = "Scripts/A.py"
    /\ scriptFiles["Scripts/A.py"] = OnDisk("G2", "CRLF")
    /\ scriptFiles["Scripts/B.py"] = NoFile
    /\ \E n \in TextNodesOf(scene, "Scripts/A.py") :
        n.id = lastScriptNodeID /\ n.text = "G2"
    /\ TextNodesOf(scene, "Scripts/B.py") # {}

\* C37: whenever lastScriptNodeID is set it is the ID of a text node that is
\* in the scene, after any sequence of NewScript requests, failed requests
\* and clicks on "Open in Script Editor", and no such click ends with the
\* "Could not find the generated script node" warning.  Stated for the
\* points where no request is running.
C37_LastScriptNodeIsInScene ==
    script.pc = "idle" =>
        /\ lastScriptNodeID # None => lastScriptNodeID \in NodeIDsOf(scene)
        /\ opened # "couldNotFind"

\* What holds of a trySetNode chain at every point: it has run at most 30
\* times; while a run is scheduled fewer than 30 have happened and no
\* warning was shown; a chain that set the node did so in one of its runs
\* and showed no warning; the warning is shown after exactly 30 runs, once.
C38_Bounded ==
    /\ retry.count <= 30
    /\ retry.warnings <= 1
    /\ retry.state = "scheduled" => (retry.count < 30 /\ retry.warnings = 0)
    /\ retry.state = "set" => (retry.count >= 1 /\ retry.warnings = 0)
    /\ retry.state = "warned" => (retry.count = 30 /\ retry.warnings = 1)

\* C38: per call of focusScriptInScriptEditor, trySetNode runs at most 30
\* times, no run is scheduled after the run that sets the node, the warning
\* is shown exactly once after the 30th failed run with nothing scheduled
\* after it, and the chain always ends: at every point no run is scheduled
\* then or at some later point.
C38_RetryChainIsBounded == []C38_Bounded /\ []<>(retry.state # "scheduled")

\* C38 witness: the 30th run has failed and the warning was shown.
C38_Witness ==
    /\ retry.state = "warned"
    /\ retry.count = 30
    /\ retry.warnings = 1
    /\ opened = "timerStarted"

====
